---- MODULE Spec2Model ----
(***************************************************************************)
(* Model of src/jsonpath/json_filter/value_wrapper.rs: the ValueWrapper    *)
(* container, its typed comparison (cmp_with_term), its filters            *)
(* (take_with), its canonical key (uuid) and its set combinators           *)
(* (into_map, except, intersect, union, cmp).                              *)
(*                                                                         *)
(* A Rust String is modelled as the sequence of its bytes, so that         *)
(* concatenation (format!/collect) is \o and the comparison of two strings *)
(* is the byte-wise lexicographic one.  A serde_json Value is a record     *)
(* tagged by "kind"; a Map (serde_json with preserve_order) is a sequence  *)
(* of entries [k, v] in insertion order.                                   *)
(***************************************************************************)
EXTENDS Integers, Sequences, FiniteSets, TLC

VARIABLES
    in_self,    \* the value the self container was constructed with
    in_other,   \* the value the other container was constructed with
    in_key,     \* the Option<ValueFilterKey> argument of take_with
    in_et,      \* the ExprTerm argument of take_with
    in_cmp,     \* the PrivCmp argument of take_with
    vw_self,    \* the container the operation is called on
    vw_other,   \* the container passed as `other`
    ret,        \* what the operation returned
    pc          \* "new" before the operation, its name after it

vars == <<in_self, in_other, in_key, in_et, in_cmp, vw_self, vw_other, ret, pc>>

-----------------------------------------------------------------------------
(* Bounds of the model *)

\* longest array given to the set combinators
MaxLen == 3
\* longest array given to take_with (the spec's three-element example is added)
MaxFilterLen == 2

-----------------------------------------------------------------------------
(* serde_json::Value *)

Null == [kind |-> "Null"]
Bool(b) == [kind |-> "Bool", b |-> b]
Number(n) == [kind |-> "Number", n |-> n]
String(s) == [kind |-> "String", s |-> s]
Array(items) == [kind |-> "Array", items |-> items]
Object(entries) == [kind |-> "Object", entries |-> entries]

\* Value::take: mem::replace(self, Value::Null); the slot holds Null afterwards
take_left == Null

\* Map::get
RECURSIVE map_get(_, _, _)
map_get(entries, k, i) ==
    IF i > Len(entries) THEN [some |-> FALSE]
    ELSE IF entries[i].k = k THEN [some |-> TRUE, v |-> entries[i].v]
    ELSE map_get(entries, k, i + 1)

\* Number::as_f64: Some for every number serde_json parses (u64, i64, f64)
as_f64(n) == [some |-> TRUE, v |-> n]

-----------------------------------------------------------------------------
(* Strings as byte sequences *)

NullStr == <<110, 117, 108, 108>>
TrueStr == <<116, 114, 117, 101>>
FalseStr == <<102, 97, 108, 115, 101>>

\* Display of a non-negative integer: its decimal digits
RECURSIVE to_string(_)
to_string(n) ==
    IF n < 10 THEN <<48 + n>> ELSE to_string(n \div 10) \o <<48 + (n % 10)>>

\* str::cmp: byte-wise lexicographic order; -1, 0, 1
RECURSIVE str_cmp(_, _)
str_cmp(a, b) ==
    IF a = <<>> /\ b = <<>> THEN 0
    ELSE IF a = <<>> THEN 0 - 1
    ELSE IF b = <<>> THEN 1
    ELSE IF Head(a) < Head(b) THEN 0 - 1
    ELSE IF Head(a) > Head(b) THEN 1
    ELSE str_cmp(Tail(a), Tail(b))

-----------------------------------------------------------------------------
(* ExprTerm, CmpType, ValueFilterKey, TermContext, PrivCmp (super::term,    *)
(* super::cmp, super::value_filter)                                        *)

ExprBool(b) == [term |-> "Bool", b |-> b]
ExprNumber(n) == [term |-> "Number", n |-> n]
ExprString(s) == [term |-> "String", s |-> s]

CmpTypes == {"Eq", "Ne", "Gt", "Ge", "Lt", "Le"}
CmpFns == {"CmpEq", "CmpNe", "CmpGt", "CmpGe", "CmpLt", "CmpLe"}

None == [some |-> FALSE]
Some(x) == [some |-> TRUE, v |-> x]
FilterKeyString(s) == [fk |-> "String", s |-> s]

TermJson(k, vw) == [tc |-> "Json", key |-> k, vw |-> vw]
TermConstants(et) == [tc |-> "Constants", et |-> et]

BoolRank(b) == IF b THEN 1 ELSE 0

ord_holds(f, c) ==
    CASE f = "CmpEq" -> c = 0
      [] f = "CmpNe" -> c # 0
      [] f = "CmpGt" -> c > 0
      [] f = "CmpGe" -> c >= 0
      [] f = "CmpLt" -> c < 0
      [] f = "CmpLe" -> c <= 0

cmp_bool(f, v1, v2) == ord_holds(f, BoolRank(v1) - BoolRank(v2))
cmp_f64(f, v1, v2) == ord_holds(f, IF v1 < v2 THEN 0 - 1 ELSE IF v1 > v2 THEN 1 ELSE 0)
cmp_string(f, v1, v2) == ord_holds(f, str_cmp(v1, v2))

-----------------------------------------------------------------------------
(* ValueWrapper *)

new(val, leaves) == [val |-> val, leaves |-> leaves]
is_leaves(self) == self.leaves

\* a comparison that takes values of different kinds to be "not equal"
cmp_with_term_ne(val, et, cmp_fn, default) ==
    CASE val.kind = "Bool" /\ et.term = "Bool" -> cmp_bool(cmp_fn, val.b, et.b)
      [] val.kind = "Number" /\ et.term = "Number" -> cmp_f64(cmp_fn, val.n, et.n)
      [] val.kind = "String" /\ et.term = "String" -> cmp_string(cmp_fn, val.s, et.s)
      [] OTHER -> cmp_fn = "CmpNe"

cmp_with_term(val, et, cmp_fn, default) ==
    CASE val.kind = "Bool" ->
            IF et.term = "Bool" THEN cmp_bool(cmp_fn, val.b, et.b) ELSE default
      [] val.kind = "Number" ->
            IF as_f64(val.n).some
            THEN IF et.term = "Number" THEN cmp_f64(cmp_fn, as_f64(val.n).v, et.n)
                 ELSE default
            ELSE default
      [] val.kind = "String" ->
            IF et.term = "String" THEN cmp_string(cmp_fn, val.s, et.s) ELSE default
      [] OTHER -> default

\* a member filter that compares an element that is no Object by itself
filter_with_object_direct(v, key, et, cmp_fn) ==
    IF v.kind = "Object"
    THEN LET vv == map_get(v.entries, key, 1)
         IN IF vv.some THEN cmp_with_term(vv.v, et, cmp_fn, FALSE) ELSE FALSE
    ELSE cmp_with_term(v, et, cmp_fn, FALSE)

filter_with_object(v, key, et, cmp_fn) ==
    IF v.kind = "Object"
    THEN LET vv == map_get(v.entries, key, 1)
         IN IF vv.some THEN cmp_with_term(vv.v, et, cmp_fn, FALSE) ELSE FALSE
    ELSE FALSE

\* vec.iter_mut().filter(..).map(|v| v.take()).collect(): the kept elements, in order
RECURSIVE filter_object_collect(_, _, _, _, _)
filter_object_collect(vec, i, key, et, cmp_fn) ==
    IF i > Len(vec) THEN <<>>
    ELSE IF filter_with_object(vec[i], key, et, cmp_fn)
         THEN <<vec[i]>> \o filter_object_collect(vec, i + 1, key, et, cmp_fn)
         ELSE filter_object_collect(vec, i + 1, key, et, cmp_fn)

\* self.val.take() comes first: self holds Null whatever the value was
take_object_in_array(self, key, et, cmp_fn) ==
    LET taken == self.val
        left == [self EXCEPT !.val = take_left]
    IN IF taken.kind = "Array"
       THEN [self |-> left,
             ret |-> Some(new(Array(filter_object_collect(taken.items, 1, key, et, cmp_fn)),
                              FALSE))]
       ELSE [self |-> left, ret |-> None]

take_with_key_type(self, key, et, cmp_fn) ==
    IF key.some /\ key.v.fk = "String"
    THEN take_object_in_array(self, key.v.s, et, cmp_fn)
    ELSE [self |-> self, ret |-> None]

RECURSIVE filter_collect(_, _, _, _)
filter_collect(vec, i, et, cmp_fn) ==
    IF i > Len(vec) THEN <<>>
    ELSE IF cmp_with_term(vec[i], et, cmp_fn, FALSE)
         THEN <<vec[i]>> \o filter_collect(vec, i + 1, et, cmp_fn)
         ELSE filter_collect(vec, i + 1, et, cmp_fn)

take_with(self, key, et, cmp_fn) ==
    LET first == take_with_key_type(self, key, et, cmp_fn)
    IN IF first.ret.some
       THEN [self |-> first.self, ret |-> first.ret.v]
       ELSE LET taken == first.self.val
                left == [first.self EXCEPT !.val = take_left]
            IN IF taken.kind = "Array"
               THEN [self |-> left,
                     ret |-> new(Array(filter_collect(taken.items, 1, et, cmp_fn)), FALSE)]
               ELSE IF cmp_with_term(taken, et, cmp_fn, FALSE)
                    THEN [self |-> left, ret |-> new(taken, FALSE)]
                    ELSE [self |-> left, ret |-> new(Null, FALSE)]

replace(self, val) ==
    LET is_null == CASE val.kind = "Array" -> val.items = <<>>
                     [] val.kind = "Object" -> val.entries = <<>>
                     [] OTHER -> val.kind = "Null"
    IN [self EXCEPT !.val = IF is_null THEN Null ELSE val]

-----------------------------------------------------------------------------
(* The canonical key *)

RECURSIVE uuid_fn(_), uuid_array(_, _), uuid_object(_, _)
uuid_fn(v) ==
    CASE v.kind = "Null" -> NullStr
      [] v.kind = "String" -> v.s
      [] v.kind = "Bool" -> IF v.b THEN TrueStr ELSE FalseStr
      [] v.kind = "Number" -> to_string(v.n)
      [] v.kind = "Array" -> uuid_array(v.items, 1)
      [] v.kind = "Object" -> uuid_object(v.entries, 1)

\* enumerate() counts from 0; format!("{}{}", i, _fn(v))
uuid_array(items, i) ==
    IF i > Len(items) THEN <<>>
    ELSE to_string(i - 1) \o uuid_fn(items[i]) \o uuid_array(items, i + 1)

\* format!("{}{}", k, _fn(v)) for each entry in the map's order
uuid_object(entries, i) ==
    IF i > Len(entries) THEN <<>>
    ELSE entries[i].k \o uuid_fn(entries[i].v) \o uuid_object(entries, i + 1)

uuid(v) == uuid_fn(v)

-----------------------------------------------------------------------------
(* IndexMap<String, Value>: a sequence of entries [k, v] in insertion order *)

IndexMapNew == <<>>

contains_key(map, key) == \E i \in 1..Len(map) : map[i].k = key

\* insert: a present key keeps its position and gets the new value
insert(map, key, value) ==
    IF contains_key(map, key)
    THEN [i \in 1..Len(map) |-> IF map[i].k = key THEN [k |-> key, v |-> value] ELSE map[i]]
    ELSE Append(map, [k |-> key, v |-> value])

\* values_mut().map(|v| v.take()).collect()
values(map) == [i \in 1..Len(map) |-> map[i].v]

-----------------------------------------------------------------------------
(* The set combinators *)

\* an into_map that clones the elements instead of taking them
RECURSIVE into_map_loop_clone(_, _, _)
into_map_loop_clone(v1, i, map) ==
    IF i > Len(v1) THEN [v1 |-> v1, map |-> map]
    ELSE into_map_loop_clone(v1, i + 1, insert(map, uuid(v1[i]), v1[i]))

RECURSIVE into_map_loop(_, _, _)
into_map_loop(v1, i, map) ==
    IF i > Len(v1) THEN [v1 |-> v1, map |-> map]
    ELSE into_map_loop([v1 EXCEPT ![i] = take_left], i + 1, insert(map, uuid(v1[i]), v1[i]))

into_map(self) ==
    IF self.val.kind = "Array"
    THEN LET r == into_map_loop(self.val.items, 1, IndexMapNew)
         IN [self |-> [self EXCEPT !.val = Array(r.v1)], map |-> r.map]
    ELSE [self |-> [self EXCEPT !.val = take_left],
          map |-> insert(IndexMapNew, uuid(self.val), self.val)]

RECURSIVE except_loop(_, _, _, _)
except_loop(v1, i, map, acc) ==
    IF i > Len(v1) THEN [v1 |-> v1, map |-> acc]
    ELSE IF ~contains_key(map, uuid(v1[i]))
         THEN except_loop([v1 EXCEPT ![i] = take_left], i + 1, map,
                          insert(acc, uuid(v1[i]), v1[i]))
         ELSE except_loop(v1, i + 1, map, acc)

except(self, other) ==
    LET m == into_map(self)
        r == IF other.val.kind = "Array"
             THEN LET l == except_loop(other.val.items, 1, m.map, IndexMapNew)
                  IN [other |-> [other EXCEPT !.val = Array(l.v1)], map |-> l.map]
             ELSE IF ~contains_key(m.map, uuid(other.val))
                  THEN [other |-> [other EXCEPT !.val = take_left],
                        map |-> insert(IndexMapNew, uuid(other.val), other.val)]
                  ELSE [other |-> other, map |-> IndexMapNew]
    IN [self |-> m.self, other |-> r.other, ret |-> new(Array(values(r.map)), FALSE)]

RECURSIVE intersect_loop(_, _, _, _)
intersect_loop(v1, i, map, acc) ==
    IF i > Len(v1) THEN [v1 |-> v1, map |-> acc]
    ELSE IF contains_key(map, uuid(v1[i]))
         THEN intersect_loop([v1 EXCEPT ![i] = take_left], i + 1, map,
                             insert(acc, uuid(v1[i]), v1[i]))
         ELSE intersect_loop(v1, i + 1, map, acc)

intersect(self, other) ==
    LET m == into_map(self)
        r == IF other.val.kind = "Array"
             THEN LET l == intersect_loop(other.val.items, 1, m.map, IndexMapNew)
                  IN [other |-> [other EXCEPT !.val = Array(l.v1)], map |-> l.map]
             ELSE IF contains_key(m.map, uuid(other.val))
                  THEN [other |-> [other EXCEPT !.val = take_left],
                        map |-> insert(IndexMapNew, uuid(other.val), other.val)]
                  ELSE [other |-> other, map |-> IndexMapNew]
    IN [self |-> m.self, other |-> r.other, ret |-> new(Array(values(r.map)), FALSE)]

\* a union that tests the key as intersect does
RECURSIVE union_loop_present(_, _, _)
union_loop_present(v1, i, map) ==
    IF i > Len(v1) THEN [v1 |-> v1, map |-> map]
    ELSE IF contains_key(map, uuid(v1[i]))
         THEN union_loop_present([v1 EXCEPT ![i] = take_left], i + 1,
                                 insert(map, uuid(v1[i]), v1[i]))
         ELSE union_loop_present(v1, i + 1, map)

RECURSIVE union_loop(_, _, _)
union_loop(v1, i, map) ==
    IF i > Len(v1) THEN [v1 |-> v1, map |-> map]
    ELSE IF ~contains_key(map, uuid(v1[i]))
         THEN union_loop([v1 EXCEPT ![i] = take_left], i + 1, insert(map, uuid(v1[i]), v1[i]))
         ELSE union_loop(v1, i + 1, map)

union(self, other) ==
    LET m == into_map(self)
        r == IF other.val.kind = "Array"
             THEN LET l == union_loop(other.val.items, 1, m.map)
                  IN [other |-> [other EXCEPT !.val = Array(l.v1)], map |-> l.map]
             ELSE IF ~contains_key(m.map, uuid(other.val))
                  THEN [other |-> [other EXCEPT !.val = take_left],
                        map |-> insert(m.map, uuid(other.val), other.val)]
                  ELSE [other |-> other, map |-> m.map]
    IN [self |-> m.self, other |-> r.other,
        ret |-> replace(new(Null, FALSE), Array(values(r.map)))]

\* a dispatch with the Eq and Ne arms exchanged
cmp_swapped(self, other, cmp_type) ==
    CASE cmp_type = "Eq" ->
            LET r == except(self, other)
            IN [self |-> r.self, other |-> r.other, ret |-> TermJson(None, r.ret)]
      [] cmp_type = "Ne" ->
            LET r == intersect(self, other)
            IN [self |-> r.self, other |-> r.other, ret |-> TermJson(None, r.ret)]
      [] cmp_type \in {"Gt", "Ge", "Lt", "Le"} ->
            [self |-> self, other |-> other, ret |-> TermConstants(ExprBool(FALSE))]

cmp(self, other, cmp_type) ==
    CASE cmp_type = "Eq" ->
            LET r == intersect(self, other)
            IN [self |-> r.self, other |-> r.other, ret |-> TermJson(None, r.ret)]
      [] cmp_type = "Ne" ->
            LET r == except(self, other)
            IN [self |-> r.self, other |-> r.other, ret |-> TermJson(None, r.ret)]
      [] cmp_type \in {"Gt", "Ge", "Lt", "Le"} ->
            [self |-> self, other |-> other, ret |-> TermConstants(ExprBool(FALSE))]

-----------------------------------------------------------------------------
(* The inputs: the values the containers are constructed with *)

\* the strings "1", "", "a", "aa", "b", "x", "y", "age", "name" as bytes
Str1 == <<49>>
StrEmpty == <<>>
StrA == <<97>>
StrAA == <<97, 97>>
StrB == <<98>>
StrX == <<120>>
StrY == <<121>>
StrAge == <<97, 103, 101>>
StrName == <<110, 97, 109, 101>>

Entry(k, v) == [k |-> k, v |-> v]

SeqsUpTo(S, n) == UNION {[1..m -> S] : m \in 0..n}

\* elements of the arrays given to the set combinators: 1, 11 and "1"
SetElems == {Number(1), Number(11), String(Str1)}

\* [1,2,3] and [2,3,4]
EqSelf == Array(<<Number(1), Number(2), Number(3)>>)
EqOther == Array(<<Number(2), Number(3), Number(4)>>)

\* {a:1,b:2}, {b:2,a:1}, {a:"",aa:""}, {aa:"",a:""}
ObjAB == Object(<<Entry(StrA, Number(1)), Entry(StrB, Number(2))>>)
ObjBA == Object(<<Entry(StrB, Number(2)), Entry(StrA, Number(1))>>)
ObjAAA == Object(<<Entry(StrA, String(StrEmpty)), Entry(StrAA, String(StrEmpty))>>)
ObjAAA2 == Object(<<Entry(StrAA, String(StrEmpty)), Entry(StrA, String(StrEmpty))>>)

SetVals ==
    {Array(s) : s \in SeqsUpTo(SetElems, MaxLen)}
        \cup SetElems \cup {Null, EqSelf, EqOther, ObjAB, ObjBA, ObjAAA, ObjAAA2}

\* {"age":30}, {"age":"x"}, {"name":"y"}
ObjAge30 == Object(<<Entry(StrAge, Number(30))>>)
ObjAgeX == Object(<<Entry(StrAge, String(StrX))>>)
ObjNameY == Object(<<Entry(StrName, String(StrY))>>)

FilterElems ==
    {ObjAge30, ObjAgeX, ObjNameY, Number(30), String(StrX), Bool(TRUE), Null,
     Array(<<Number(30)>>)}

\* [{"age":30},{"age":"x"},{"name":"y"}]
MemberExample == Array(<<ObjAge30, ObjAgeX, ObjNameY>>)

FilterVals ==
    {Array(s) : s \in SeqsUpTo(FilterElems, MaxFilterLen)}
        \cup FilterElems \cup {MemberExample}

FilterKeys == {None, Some(FilterKeyString(StrAge))}
FilterTerms == {ExprNumber(25), ExprNumber(30), ExprString(StrX), ExprBool(FALSE)}

NoRet == [tc |-> "none"]

-----------------------------------------------------------------------------
(* The state machine: two containers are constructed, one operation is     *)
(* called on them, and fresh containers are constructed for the next call. *)

\* two already-filtered containers to combine (leaves = false), or one
\* candidate subtree to filter with a predicate
Construct(s, o, k, e, c, lv) ==
    /\ \/ /\ s \in SetVals
          /\ o \in SetVals
          /\ k = None
          /\ e = ExprNumber(1)
          /\ c = "CmpEq"
          /\ lv = FALSE
       \/ /\ s \in FilterVals
          /\ o = Null
          /\ k \in FilterKeys
          /\ e \in FilterTerms
          /\ c \in CmpFns
          /\ lv \in BOOLEAN

Init ==
    /\ \E lv \in BOOLEAN :
          /\ Construct(in_self, in_other, in_key, in_et, in_cmp, lv)
          /\ vw_self = new(in_self, lv)
          /\ vw_other = new(in_other, FALSE)
    /\ ret = NoRet
    /\ pc = "new"

Inputs == <<in_self, in_other, in_key, in_et, in_cmp>>

TakeWith ==
    /\ pc = "new"
    /\ LET r == take_with(vw_self, in_key, in_et, in_cmp)
       IN /\ vw_self' = r.self
          /\ ret' = r.ret
    /\ pc' = "take_with"
    /\ UNCHANGED <<Inputs, vw_other>>

Intersect ==
    /\ pc = "new"
    /\ LET r == intersect(vw_self, vw_other)
       IN /\ vw_self' = r.self
          /\ vw_other' = r.other
          /\ ret' = r.ret
    /\ pc' = "intersect"
    /\ UNCHANGED Inputs

Except ==
    /\ pc = "new"
    /\ LET r == except(vw_self, vw_other)
       IN /\ vw_self' = r.self
          /\ vw_other' = r.other
          /\ ret' = r.ret
    /\ pc' = "except"
    /\ UNCHANGED Inputs

Union ==
    /\ pc = "new"
    /\ LET r == union(vw_self, vw_other)
       IN /\ vw_self' = r.self
          /\ vw_other' = r.other
          /\ ret' = r.ret
    /\ pc' = "union"
    /\ UNCHANGED Inputs

CmpPc == [Eq |-> "cmp_eq", Ne |-> "cmp_ne", Gt |-> "cmp_gt", Ge |-> "cmp_ge",
          Lt |-> "cmp_lt", Le |-> "cmp_le"]

Cmp ==
    /\ pc = "new"
    /\ \E cmp_type \in CmpTypes :
          /\ LET r == cmp(vw_self, vw_other, cmp_type)
             IN /\ vw_self' = r.self
                /\ vw_other' = r.other
                /\ ret' = r.ret
          /\ pc' = CmpPc[cmp_type]
    /\ UNCHANGED Inputs

\* the caller drops the used containers and constructs fresh ones from copies
\* of the same values
New ==
    /\ pc # "new"
    /\ \E lv \in BOOLEAN :
          /\ Construct(in_self, in_other, in_key, in_et, in_cmp, lv)
          /\ vw_self' = new(in_self, lv)
          /\ vw_other' = new(in_other, FALSE)
    /\ ret' = NoRet
    /\ pc' = "new"
    /\ UNCHANGED Inputs

Next == TakeWith \/ Intersect \/ Except \/ Union \/ Cmp \/ New

Spec == Init /\ [][Next]_vars

-----------------------------------------------------------------------------
(* Vocabulary of the properties *)

\* a value as a sequence of elements: a non-Array value is a one-element sequence
Elems(v) == IF v.kind = "Array" THEN v.items ELSE <<v>>

\* the elements of a returned container: none when it holds Null
Items(vw) == IF vw.val.kind = "Array" THEN vw.val.items ELSE <<>>

InSeq(x, s) == \E i \in 1..Len(s) : s[i] = x

KeySet(s) == {uuid(s[i]) : i \in 1..Len(s)}

Fresh(v) == new(v, FALSE)

SizeIn(v) == IF v.kind = "Array" THEN Len(v.items) ELSE 1

SizeOut(vw) ==
    IF vw.val.kind = "Null" THEN 0
    ELSE IF vw.val.kind = "Array" THEN Len(vw.val.items) ELSE 1

Max(a, b) == IF a >= b THEN a ELSE b

RECURSIVE IsSubseq(_, _)
IsSubseq(a, b) ==
    IF a = <<>> THEN TRUE
    ELSE IF b = <<>> THEN FALSE
    ELSE IF Head(a) = Head(b) THEN IsSubseq(Tail(a), Tail(b))
    ELSE IsSubseq(a, Tail(b))

\* the same elements, as often, in another order
Permuted(a, b) ==
    /\ Len(a) = Len(b)
    /\ a # b
    /\ \A i \in 1..Len(a) :
          Cardinality({j \in 1..Len(a) : a[j] = a[i]})
              = Cardinality({j \in 1..Len(b) : b[j] = a[i]})

\* the Comparator as section 4.1 states it: matching scalar kinds only
KindMatches(v, et) ==
    \/ v.kind = "Bool" /\ et.term = "Bool"
    \/ v.kind = "Number" /\ et.term = "Number"
    \/ v.kind = "String" /\ et.term = "String"

Compare(v, et, f) ==
    /\ KindMatches(v, et)
    /\ CASE v.kind = "Bool" -> cmp_bool(f, v.b, et.b)
         [] v.kind = "Number" -> cmp_f64(f, v.n, et.n)
         [] v.kind = "String" -> cmp_string(f, v.s, et.s)

SetOps == {"intersect", "except", "union"}

-----------------------------------------------------------------------------
(* The properties *)

\* C1: partition law.  With other an Array, every element of other appears in
\* exactly one of self.intersect(other) and self.except(other), both computed
\* on fresh copies of the same self and other.
C1_PartitionLaw ==
    (pc = "intersect" /\ in_other.kind = "Array") =>
        LET I == Items(ret)
            E == Items(except(Fresh(in_self), Fresh(in_other)).ret)
        IN \A i \in 1..Len(in_other.items) :
              InSeq(in_other.items[i], I) # InSeq(in_other.items[i], E)

\* C2: union containment.  Every element of self or of other is present, as
\* that same value, in the Array self.union(other) returns.
C2_UnionContainment ==
    pc = "union" =>
        /\ \A i \in 1..Len(Elems(in_self)) : InSeq(Elems(in_self)[i], Items(ret))
        /\ \A i \in 1..Len(Elems(in_other)) : InSeq(Elems(in_other)[i], Items(ret))

\* C3 as stated: the size of self.union(other) is at least max(|self|, |other|)
\* and at most |self| + |other|.
C3_UnionSizeBound ==
    pc = "union" =>
        /\ SizeOut(ret) >= Max(SizeIn(in_self), SizeIn(in_other))
        /\ SizeOut(ret) <= SizeIn(in_self) + SizeIn(in_other)

\* C3 as amended: the size of self.union(other) is at least the larger of the
\* numbers of distinct canonical keys of self and of other, and at most
\* |self| + |other|.
C3_UnionSizeBoundByKeys ==
    pc = "union" =>
        /\ SizeOut(ret) >= Max(Cardinality(KeySet(Elems(in_self))),
                               Cardinality(KeySet(Elems(in_other))))
        /\ SizeOut(ret) <= SizeIn(in_self) + SizeIn(in_other)

\* a union of a self that holds an element twice: the result is shorter than self
C3_Witness ==
    /\ pc = "union"
    /\ in_self.kind = "Array"
    /\ \E i, j \in 1..Len(in_self.items) : i # j /\ in_self.items[i] = in_self.items[j]
    /\ SizeOut(ret) < SizeIn(in_self)
    /\ SizeOut(ret) > 0

\* C4: member filter on arrays.  On an Array and a present string key k,
\* take_with returns a container with leaves = false holding the Array of exactly
\* those elements that are Objects containing k whose member at k passes the
\* comparison with the literal, in their original order; on
\* [{"age":30},{"age":"x"},{"name":"y"}] with "age", Number(25), Gt that is
\* [{"age":30}].
C4_MemberFilter ==
    (pc = "take_with" /\ in_self.kind = "Array" /\ in_key.some) =>
        LET k == in_key.v.s
            Kept(e) ==
                /\ e.kind = "Object"
                /\ \E n \in 1..Len(e.entries) :
                      /\ e.entries[n].k = k
                      /\ Compare(e.entries[n].v, in_et, in_cmp)
        IN /\ is_leaves(ret) = FALSE
           /\ ret.val = Array(SelectSeq(in_self.items, Kept))
           /\ (in_self = MemberExample /\ in_et = ExprNumber(25) /\ in_cmp = "CmpGt")
                 => ret.val = Array(<<ObjAge30>>)

\* the spec's example, called on a leaf container
C4_Witness ==
    /\ pc = "take_with"
    /\ in_self = MemberExample
    /\ in_key = Some(FilterKeyString(StrAge))
    /\ in_et = ExprNumber(25)
    /\ in_cmp = "CmpGt"
    /\ ret = new(Array(<<ObjAge30>>), FALSE)
    /\ vw_self.leaves = TRUE

\* C5: non-array branch of take_with.  On a value that is no Array, with any
\* member key (absent or present), take_with returns the original value when the
\* comparison holds and Null otherwise.
C5_NonArrayTakeWith ==
    (pc = "take_with" /\ in_self.kind # "Array") =>
        ret.val = IF Compare(in_self, in_et, in_cmp) THEN in_self ELSE Null

\* C6: a shape mismatch is "no match".  Under each of the six operators the
\* comparison is false when the value's kind does not match the literal's or the
\* value is Null, an Array or an Object; take_with without a member key drops
\* every such array element and returns Null for such a non-array value; and
\* take_with always returns a container.
C6_ShapeMismatch ==
    pc = "take_with" =>
        /\ \A f \in CmpFns : \A i \in 1..Len(Elems(in_self)) :
              ~KindMatches(Elems(in_self)[i], in_et)
                  => ~cmp_with_term(Elems(in_self)[i], in_et, f, FALSE)
        /\ (in_key = None /\ in_self.kind = "Array") =>
              /\ ret.val.kind = "Array"
              /\ \A i \in 1..Len(in_self.items) :
                    ~KindMatches(in_self.items[i], in_et)
                        => ~InSeq(in_self.items[i], ret.val.items)
        /\ (in_key = None /\ in_self.kind # "Array" /\ ~KindMatches(in_self, in_et))
              => ret.val = Null
        /\ ret.leaves = FALSE
        /\ ret.val.kind \in {"Null", "Bool", "Number", "String", "Array", "Object"}

\* a keyless Ne filter over an array with a mismatching and a matching element
C6_Witness ==
    /\ pc = "take_with"
    /\ in_key = None
    /\ in_cmp = "CmpNe"
    /\ in_self.kind = "Array"
    /\ \E i \in 1..Len(in_self.items) : ~KindMatches(in_self.items[i], in_et)
    /\ ret.val.kind = "Array"
    /\ Len(ret.val.items) = 1

\* C7: cmp dispatch.  cmp(other, Eq) returns Json(None, self.intersect(other)):
\* the elements of other whose key is found in self; cmp(other, Ne) returns
\* Json(None, self.except(other)): the elements of other whose key is absent
\* from self; the four ordering operators return Constants(Bool(false)).  On
\* self = [1,2,3], other = [2,3,4]: [2,3] for Eq and [4] for Ne.
C7_CmpDispatch ==
    /\ pc = "cmp_eq" =>
          /\ ret.tc = "Json"
          /\ ret.key = None
          /\ ret.vw = intersect(Fresh(in_self), Fresh(in_other)).ret
          /\ ret.vw.val.kind = "Array"
          /\ \A i \in 1..Len(Items(ret.vw)) :
                /\ InSeq(Items(ret.vw)[i], Elems(in_other))
                /\ uuid(Items(ret.vw)[i]) \in KeySet(Elems(in_self))
          /\ KeySet(Items(ret.vw)) = KeySet(Elems(in_other)) \cap KeySet(Elems(in_self))
          /\ (in_self = EqSelf /\ in_other = EqOther)
                => ret.vw.val = Array(<<Number(2), Number(3)>>)
    /\ pc = "cmp_ne" =>
          /\ ret.tc = "Json"
          /\ ret.key = None
          /\ ret.vw = except(Fresh(in_self), Fresh(in_other)).ret
          /\ ret.vw.val.kind = "Array"
          /\ \A i \in 1..Len(Items(ret.vw)) :
                /\ InSeq(Items(ret.vw)[i], Elems(in_other))
                /\ uuid(Items(ret.vw)[i]) \notin KeySet(Elems(in_self))
          /\ KeySet(Items(ret.vw)) = KeySet(Elems(in_other)) \ KeySet(Elems(in_self))
          /\ (in_self = EqSelf /\ in_other = EqOther)
                => ret.vw.val = Array(<<Number(4)>>)
    /\ pc \in {"cmp_gt", "cmp_ge", "cmp_lt", "cmp_le"} =>
          ret = TermConstants(ExprBool(FALSE))

\* cmp(Eq) on the spec's example
C7_Witness ==
    /\ pc = "cmp_eq"
    /\ in_self = EqSelf
    /\ in_other = EqOther
    /\ ret = TermJson(None, new(Array(<<Number(2), Number(3)>>), FALSE))

\* C8: order preservation.  The result of intersect and of except is a
\* subsequence of other's elements; the result of union is a subsequence of
\* self's elements followed by other's.
C8_OrderPreserved ==
    /\ pc \in {"intersect", "except"} => IsSubseq(Items(ret), Elems(in_other))
    /\ pc = "union" => IsSubseq(Items(ret), Elems(in_self) \o Elems(in_other))

\* nothing of the constructed value is left to read in the container
Emptied(vw) ==
    \/ vw.val = Null
    \/ vw.val.kind = "Array" /\ \A i \in 1..Len(vw.val.items) : vw.val.items[i] = Null
    \/ vw.val = Object(<<>>)

Moved(op, i) ==
    LET key == uuid(Elems(in_other)[i])
    IN CASE op = "intersect" -> key \in KeySet(Elems(in_self))
         [] op = "except" -> key \notin KeySet(Elems(in_self))
         [] op = "union" ->
                /\ key \notin KeySet(Elems(in_self))
                /\ \A j \in 1..(i - 1) : uuid(Elems(in_other)[j]) # key

C10_KeyPositional ==
    /\ (pc \in SetOps /\ in_self.kind = "Array" /\ in_other.kind = "Array"
            /\ Permuted(in_self.items, in_other.items))
          => uuid(in_self) # uuid(in_other)
    /\ (pc \in SetOps /\ in_self.kind = "Object" /\ in_other.kind = "Object"
            /\ Permuted(in_self.entries, in_other.entries))
          => uuid(in_self) # uuid(in_other)
    /\ (pc = "intersect" /\ in_self.kind = "Object" /\ in_other.kind = "Object"
            /\ Permuted(in_self.entries, in_other.entries))
          => Items(ret) = <<>>

====
